---- MODULE Spec2Model ----
(***************************************************************************)
(* Model of src/cleaning/clean_cars_final.py: the three per-cell parsers   *)
(* clean_year, clean_mileage_range and clean_price, and the batch          *)
(* run_cleaning that applies them to a table and writes the result.        *)
(*                                                                         *)
(* A text is a sequence of one-character strings.  A cell value is a       *)
(* record [k, s, n]: k is the Python type of the value ("str", "int",      *)
(* "float", "None" or "nan"), s its text when it is a str, n its number    *)
(* when it is an int or an integral float.                                 *)
(***************************************************************************)
EXTENDS Integers, Sequences, FiniteSets, TLC

VARIABLES
    val, call, ret, first,                      \* one parser call on one cell
    pc, input_exists, in_columns, in_rows,      \* run_cleaning: position and the input file
    columns, rows,                              \* run_cleaning: df.columns and df's rows
    price_col, mileage_col, year_col,           \* run_cleaning: the three bindings
    out_columns, out_rows, writes               \* the output file and how often it was written

cellVars == <<val, call, ret, first>>
runVars  == <<pc, input_exists, in_columns, in_rows, columns, rows,
              price_col, mileage_col, year_col, out_columns, out_rows, writes>>
vars     == <<val, call, ret, first, pc, input_exists, in_columns, in_rows, columns, rows,
              price_col, mileage_col, year_col, out_columns, out_rows, writes>>

----------------------------------------------------------------------------
(* Bounds of the model. *)

\* longest text, in characters, a parser is called on (besides the examples)
MaxLen == 5
\* most rows of an input table
MaxRows == 3

----------------------------------------------------------------------------
(* Python values. *)

None   == [k |-> "None",  s |-> <<>>, n |-> 0]
NaN    == [k |-> "nan",   s |-> <<>>, n |-> 0]
Txt(t) == [k |-> "str",   s |-> t,    n |-> 0]
Num(i) == [k |-> "int",   s |-> <<>>, n |-> i]
Flt(i) == [k |-> "float", s |-> <<>>, n |-> i]

IsNull(v)   == v.k \in {"None", "nan"}
IsNumber(v) == v.k \in {"int", "float"}

----------------------------------------------------------------------------
(* Python text operations. *)

DigitChars == <<"0", "1", "2", "3", "4", "5", "6", "7", "8", "9">>
UpperChars == <<"A", "B", "C", "D", "E", "F", "G", "H", "I", "J", "K", "L", "M",
                "N", "O", "P", "Q", "R", "S", "T", "U", "V", "W", "X", "Y", "Z">>
LowerChars == <<"a", "b", "c", "d", "e", "f", "g", "h", "i", "j", "k", "l", "m",
                "n", "o", "p", "q", "r", "s", "t", "u", "v", "w", "x", "y", "z">>

\* \d
IsDigit(c) == \E i \in 1..10 : DigitChars[i] = c
DigitVal(c) == (CHOOSE i \in 1..10 : DigitChars[i] = c) - 1
IsSpace(c) == c = " "

LowerChar(c) ==
    IF \E i \in 1..26 : UpperChars[i] = c
    THEN LowerChars[CHOOSE i \in 1..26 : UpperChars[i] = c]
    ELSE c

\* s.lower()
lower(s) == [i \in 1..Len(s) |-> LowerChar(s[i])]

\* s.strip()
strip(s) ==
    LET inked == {i \in 1..Len(s) : ~IsSpace(s[i])}
    IN  IF inked = {} THEN <<>>
        ELSE LET lo == CHOOSE i \in inked : \A j \in inked : i <= j
                 hi == CHOOSE i \in inked : \A j \in inked : j <= i
             IN  SubSeq(s, lo, hi)

\* s.endswith(suffix)
endswith(s, suffix) ==
    /\ Len(suffix) <= Len(s)
    /\ SubSeq(s, Len(s) - Len(suffix) + 1, Len(s)) = suffix

\* sub in s
contains(s, sub) ==
    \E i \in 1..(Len(s) - Len(sub) + 1) : SubSeq(s, i, i + Len(sub) - 1) = sub

\* s.split(sep)[0], sep one character
split_first(s, sep) ==
    IF \E i \in 1..Len(s) : s[i] = sep
    THEN SubSeq(s, 1, (CHOOSE i \in 1..Len(s) :
                          s[i] = sep /\ \A j \in 1..(i - 1) : s[j] # sep) - 1)
    ELSE s

\* s.split(sep)[-1], sep one character
split_last(s, sep) ==
    IF \E i \in 1..Len(s) : s[i] = sep
    THEN SubSeq(s, (CHOOSE i \in 1..Len(s) :
                       s[i] = sep /\ \A j \in (i + 1)..Len(s) : s[j] # sep) + 1, Len(s))
    ELSE s

\* re.sub(r'[^\d]', '', s)
re_sub_nondigit(s) == SelectSeq(s, IsDigit)

\* int(s) for a non-empty text of digits (int('') raises ValueError)
RECURSIVE int_of(_)
int_of(s) ==
    IF s = <<>> THEN 0
    ELSE int_of(SubSeq(s, 1, Len(s) - 1)) * 10 + DigitVal(s[Len(s)])

\* the decimal digits of a natural number, as str prints them
RECURSIVE digits_of(_)
digits_of(i) ==
    IF i < 10 THEN <<DigitChars[i + 1]>>
    ELSE Append(digits_of(i \div 10), DigitChars[(i % 10) + 1])

\* str(v)
str(v) ==
    CASE v.k = "str"   -> v.s
      [] v.k = "int"   -> digits_of(v.n)
      [] v.k = "float" -> digits_of(v.n) \o <<".", "0">>
      [] v.k = "nan"   -> <<"n", "a", "n">>
      [] v.k = "None"  -> <<"N", "o", "n", "e">>

\* re.search(r'\d{4}', s): where the match starts, 0 when there is none
re_search_d4(s) ==
    LET hits == {i \in 1..(Len(s) - 3) : \A j \in i..(i + 3) : IsDigit(s[j])}
    IN  IF hits = {} THEN 0 ELSE CHOOSE i \in hits : \A j \in hits : i <= j

----------------------------------------------------------------------------
(* The three parsers. *)

\* as clean_year, with the pattern \d{4,}: the whole run of digits is the year
clean_year_whole_run(v) ==
    LET s == strip(lower(str(v)))
        m == re_search_d4(s)
        e == CHOOSE j \in (m + 3)..Len(s) :
                 /\ \A i \in m..j : IsDigit(s[i])
                 /\ (j = Len(s) \/ ~IsDigit(s[j + 1]))
    IN  IF m # 0 THEN Num(int_of(SubSeq(s, m, e))) ELSE None

clean_year(v) ==
    LET s == strip(lower(str(v)))
        m == re_search_d4(s)
    IN  IF m # 0 THEN Num(int_of(SubSeq(s, m, m + 3))) ELSE None

\* as clean_mileage_range, keeping the text after the last '-': the upper bound
clean_mileage_range_upper(v) ==
    LET s0 == strip(lower(str(v)))
        s  == IF contains(s0, <<"-">>) THEN split_last(s0, "-") ELSE s0
        clean_s == re_sub_nondigit(s)
    IN  IF clean_s # <<>> THEN Num(int_of(clean_s)) ELSE Num(0)

clean_mileage_range(v) ==
    LET s0 == strip(lower(str(v)))
        s  == IF contains(s0, <<"-">>) THEN split_first(s0, "-") ELSE s0
        clean_s == re_sub_nondigit(s)
    IN  IF clean_s # <<>> THEN Num(int_of(clean_s)) ELSE Num(0)

\* as clean_price, with the suffix tests as unescaped patterns: '.' is any character
clean_price_loose_suffix(v) ==
    LET s0 == strip(lower(str(v)))
        s  == IF Len(s0) >= 2 /\ endswith(s0, <<"0">>) THEN SubSeq(s0, 1, Len(s0) - 2)
              ELSE IF Len(s0) >= 3 /\ endswith(s0, <<"0", "0">>) THEN SubSeq(s0, 1, Len(s0) - 3)
              ELSE IF contains(s0, <<",">>) /\ Len(split_last(s0, ",")) = 2
                   THEN split_first(s0, ",")
              ELSE s0
        clean_s == re_sub_nondigit(s)
    IN  IF clean_s # <<>> THEN Num(int_of(clean_s)) ELSE None

clean_price(v) ==
    LET s0 == strip(lower(str(v)))
        s  == IF endswith(s0, <<".", "0">>) THEN SubSeq(s0, 1, Len(s0) - 2)
              ELSE IF endswith(s0, <<".", "0", "0">>) THEN SubSeq(s0, 1, Len(s0) - 3)
              ELSE IF contains(s0, <<",">>) /\ Len(split_last(s0, ",")) = 2
                   THEN split_first(s0, ",")
              ELSE s0
        clean_s == re_sub_nondigit(s)
    IN  IF clean_s # <<>> THEN Num(int_of(clean_s)) ELSE None

----------------------------------------------------------------------------
(* Calls of the parsers on single cells. *)

\* the characters the enumerated texts are made of: digits, the separators the
\* parsers look at, white space and a letter
Alphabet == {"0", "1", ".", ",", "-", " ", "A"}

Texts == UNION {[1..n -> Alphabet] : n \in 0..MaxLen}

\* the texts the docstrings and the specification's examples name
Examples == {
    <<"8", "0", " ", "0", "0", "0", " ", "D", "H">>,
    <<"8", "0", "0", "0", "0", ".", "0">>,
    <<"8", "0", "0", "0", "0", ".", "0", "0">>,
    <<"1", "0", "0", ",", "0", "0">>,
    <<"1", ",", "0", "0", "0", ",", "0", "0">>,
    <<"a", "b", "c">>,
    <<"1", "9", "8", "0", " ", "o", "u", " ", "p", "l", "u", "s">>,
    <<"2", "0", "1", "9">>,
    <<"1", "2", "0", "0", "0", "0">>,
    <<"1", "0", "0", " ", "0", "0", "0", " ", "-", " ", "1", "1", "0", " ", "0", "0", "0">>,
    <<"8", "5", ",", "0", "0", "0", " ", "k", "m">> }

\* Python's integers are unbounded and TLC's have 32 bits: a parser is called
\* only on a text whose digits, read as one number, stay below 10^9
Representable(t) == Len(re_sub_nondigit(t)) <= 9

NoRun ==
    /\ pc = "start" /\ input_exists = FALSE
    /\ in_columns = <<>> /\ in_rows = <<>> /\ columns = <<>> /\ rows = <<>>
    /\ price_col = <<>> /\ mileage_col = <<>> /\ year_col = <<>>
    /\ out_columns = <<>> /\ out_rows = <<>> /\ writes = 0

InitCells ==
    /\ val \in {Txt(t) : t \in Texts \cup Examples}
    /\ call = "idle"
    /\ ret = None
    /\ first = None
    /\ NoRun

CallCleanYear ==
    /\ call = "idle"
    /\ call' = "clean_year"
    /\ ret' = clean_year(val)
    /\ UNCHANGED <<val, first>>
    /\ UNCHANGED runVars

CallCleanMileageRange ==
    /\ call = "idle"
    /\ Representable(split_first(str(val), "-"))
    /\ call' = "clean_mileage_range"
    /\ ret' = clean_mileage_range(val)
    /\ UNCHANGED <<val, first>>
    /\ UNCHANGED runVars

CallCleanPrice ==
    /\ call = "idle"
    /\ Representable(str(val))
    /\ call' = "clean_price"
    /\ ret' = clean_price(val)
    /\ UNCHANGED <<val, first>>
    /\ UNCHANGED runVars

\* clean_price called on the integer an earlier call returned
CallCleanPriceAgain ==
    /\ call = "clean_price"
    /\ ret.k = "int"
    /\ call' = "clean_price_again"
    /\ val' = ret
    /\ first' = ret
    /\ ret' = clean_price(ret)
    /\ UNCHANGED runVars

NextCells ==
    \/ CallCleanYear
    \/ CallCleanMileageRange
    \/ CallCleanPrice
    \/ CallCleanPriceAgain

SpecCells == InitCells /\ [][NextCells]_vars

----------------------------------------------------------------------------
(* The table run_cleaning works on.  columns is df.columns; a row is        *)
(* [idx, cells]: idx is the row's index label, which the frame keeps from   *)
(* read_csv to the end, and cells[j] is its value in column columns[j].     *)
(* The written file has no index column (index=False); out_rows keeps idx   *)
(* to tell which input row each written row is.                             *)

\* the least price and the price limit of line 68, both exclusive
MinPrice == 5000
MaxPrice == 3000000

drop_cols == { <<"S", "e", "c", "t", "o", "r">>, <<"L", "o", "c", "a", "t", "i", "o", "n">>,
               <<"s", "e", "c", "t", "o", "r">>, <<"l", "o", "c", "a", "t", "i", "o", "n">> }

\* What read_csv makes of a column of fields.  A column of integer literals
\* is an int64 column; a column of numbers and missing fields is a float64
\* column with NaN; any other column holds the fields as str, the missing ones
\* as NaN.  Of read_csv's number formats the model has the integer literal and
\* the decimal literal with a zero fraction, of its missing-value markers the
\* empty field and 'nan'; the input tables hold no other number format.
is_int_literal(t) == t # <<>> /\ \A i \in 1..Len(t) : IsDigit(t[i])

is_float_literal(t) ==
    \E d \in 1..Len(t) :
        /\ t[d] = "."
        /\ is_int_literal(SubSeq(t, 1, d - 1))
        /\ \A i \in (d + 1)..Len(t) : t[i] = "0"

is_missing(t) == t \in {<<>>, <<"n", "a", "n">>}

number_of(t) == int_of(split_first(t, "."))

read_csv_column(fields) ==
    IF \A i \in 1..Len(fields) : is_int_literal(fields[i].s)
    THEN [i \in 1..Len(fields) |-> Num(number_of(fields[i].s))]
    ELSE IF \A i \in 1..Len(fields) :
                \/ is_int_literal(fields[i].s)
                \/ is_float_literal(fields[i].s)
                \/ is_missing(fields[i].s)
    THEN [i \in 1..Len(fields) |->
             IF is_missing(fields[i].s) THEN NaN ELSE Flt(number_of(fields[i].s))]
    ELSE [i \in 1..Len(fields) |-> IF is_missing(fields[i].s) THEN NaN ELSE fields[i]]

has_col(cols, c) == \E j \in 1..Len(cols) : cols[j] = c
col_pos(cols, c) == CHOOSE j \in 1..Len(cols) : cols[j] = c

\* seq without the positions whose column is one of names
RECURSIVE without(_, _, _)
without(seq, cols, names) ==
    IF seq = <<>> THEN <<>>
    ELSE (IF Head(cols) \in names THEN <<>> ELSE <<Head(seq)>>)
         \o without(Tail(seq), Tail(cols), names)

\* df.drop(columns=[c for c in drop_cols if c in df.columns])
drop_rows(rws, cols) ==
    [i \in 1..Len(rws) |-> [idx |-> rws[i].idx, cells |-> without(rws[i].cells, cols, drop_cols)]]

\* as next_match, keeping the last matching column instead of the first
RECURSIVE next_match_last(_, _, _)
next_match_last(cols, synonyms, default) ==
    IF cols = <<>> THEN default
    ELSE IF \E syn \in synonyms : contains(lower(cols[Len(cols)]), syn) THEN cols[Len(cols)]
    ELSE next_match_last(SubSeq(cols, 1, Len(cols) - 1), synonyms, default)

\* next((c for c in cols if some synonym in c.lower()), default)
RECURSIVE next_match(_, _, _)
next_match(cols, synonyms, default) ==
    IF cols = <<>> THEN default
    ELSE IF \E syn \in synonyms : contains(lower(Head(cols)), syn) THEN Head(cols)
    ELSE next_match(Tail(cols), synonyms, default)

find_price_col(cols) ==
    next_match(cols, { <<"p", "r", "i", "c", "e">>, <<"p", "r", "i", "x">> },
               <<"P", "r", "i", "c", "e">>)

find_mileage_col(cols) ==
    next_match(cols, { <<"m", "i", "l", "e", "a", "g", "e">>, <<"k", "m">> },
               <<"M", "i", "l", "e", "a", "g", "e">>)

find_year_col(cols) ==
    next_match(cols, { <<"y", "e", "a", "r">>, <<"a", "n", "n", "e", "e">> },
               <<"Y", "e", "a", "r">>)

\* the dtype pandas infers for the results of Series.apply: integers and None
\* together become a float column with NaN; integers alone stay integers
infer(vals) ==
    IF (\E i \in 1..Len(vals) : vals[i].k = "None") /\ (\E i \in 1..Len(vals) : vals[i].k = "int")
    THEN [i \in 1..Len(vals) |-> IF vals[i].k = "None" THEN NaN ELSE Flt(vals[i].n)]
    ELSE vals

\* df[c], c the column at position j
column(rws, j) == [i \in 1..Len(rws) |-> rws[i].cells[j]]

\* df[c] = vals, c the column at position j
set_column(rws, j, vals) ==
    [i \in 1..Len(rws) |->
        [idx |-> rws[i].idx, cells |-> [rws[i].cells EXCEPT ![j] = vals[i]]]]

\* pd.read_csv(INPUT_FILE): the rows with the columns 1..j typed
RECURSIVE read_csv(_, _)
read_csv(lines, j) ==
    IF j = 0 THEN lines
    ELSE set_column(read_csv(lines, j - 1), j, read_csv_column(column(lines, j)))

\* df[c].apply(clean_price), df[c].apply(clean_mileage_range), df[c].apply(clean_year)
apply_clean_price(series) == infer([i \in 1..Len(series) |-> clean_price(series[i])])
apply_clean_mileage_range(series) ==
    infer([i \in 1..Len(series) |-> clean_mileage_range(series[i])])
apply_clean_year(series) == infer([i \in 1..Len(series) |-> clean_year(series[i])])

\* df.dropna(subset=[c]), c the column at position j
dropna(rws, j) ==
    LET present(r) == ~IsNull(r.cells[j])
    IN  SelectSeq(rws, present)

\* as price_range, with the limits included
price_range_inclusive(rws, j) ==
    LET plausible(r) == r.cells[j].n >= MinPrice /\ r.cells[j].n <= MaxPrice
    IN  SelectSeq(rws, plausible)

\* as price_range, followed by drop_duplicates(): of equal rows the first is kept
price_range_unique(rws, j) ==
    LET plausible(r) == r.cells[j].n > MinPrice /\ r.cells[j].n < MaxPrice
        kept == SelectSeq(rws, plausible)
        firsts == {i \in 1..Len(kept) : \A h \in 1..(i - 1) : kept[h].cells # kept[i].cells}
        is_first(r) == \E i \in firsts : kept[i] = r
    IN  SelectSeq(kept, is_first)

\* df[(df[c] > 5000) & (df[c] < 3000000)], c the column at position j
price_range(rws, j) ==
    LET plausible(r) == r.cells[j].n > MinPrice /\ r.cells[j].n < MaxPrice
    IN  SelectSeq(rws, plausible)

\* as rename_col, without the 'Fuel' key
rename_col_without_fuel(c) ==
    IF c = <<"M", "o", "d", "e", "l">> THEN <<"m", "o", "d", "e", "l">>
    ELSE IF c = <<"B", "r", "a", "n", "d">> THEN <<"b", "r", "a", "n", "d">>
    ELSE IF c = year_col THEN <<"y", "e", "a", "r">>
    ELSE IF c = mileage_col THEN <<"m", "i", "l", "e", "a", "g", "e", "_", "k", "m">>
    ELSE IF c = price_col THEN <<"p", "r", "i", "c", "e">>
    ELSE c

\* the name df.rename gives a column: of a key written twice in the dict
\* literal the last value stands
rename_col(c) ==
    IF c = <<"F", "u", "e", "l">> THEN <<"f", "u", "e", "l", "_", "t", "y", "p", "e">>
    ELSE IF c = <<"M", "o", "d", "e", "l">> THEN <<"m", "o", "d", "e", "l">>
    ELSE IF c = <<"B", "r", "a", "n", "d">> THEN <<"b", "r", "a", "n", "d">>
    ELSE IF c = year_col THEN <<"y", "e", "a", "r">>
    ELSE IF c = mileage_col THEN <<"m", "i", "l", "e", "a", "g", "e", "_", "k", "m">>
    ELSE IF c = price_col THEN <<"p", "r", "i", "c", "e">>
    ELSE c

rename(cols) == [j \in 1..Len(cols) |-> rename_col(cols[j])]

----------------------------------------------------------------------------
(* The input files: each layout is a header and, per column, the fields     *)
(* its lines are drawn from.                                                *)

Col(name, texts) == [name |-> name, cells |-> {Txt(t) : t \in texts}]

BoundaryPrices == { <<"5", "0", "0", "0">>, <<"5", "0", "0", "1">>, <<"2", "9", "9", "9", "9", "9", "9">>, <<"3", "0", "0", "0", "0", "0", "0">>, <<"a", "b", "c">>, <<>> }
ListingPrices  == { <<"8", "0", " ", "0", "0", "0", " ", "D", "H">>, <<"3", "0", "0", "0">>, <<"1", "2", "0", "0", "0", "0", ".", "0", "0">> }
Mileages       == { <<>>, <<"1", "0", "0", " ", "0", "0", "0", " ", "-", " ", "1", "1", "0", " ", "0", "0", "0">> }
Years          == { <<"1", "9", "8", "0", " ", "o", "u", " ", "p", "l", "u", "s">>, <<"0", "1", "2", "3">>, <<"n", "a", "n">> }

Layouts == {
    \* French headers, a dropped column, prices at the limits
    << Col(<<"B", "r", "a", "n", "d">>, {<<"D", "a", "c", "i", "a">>}), Col(<<"P", "r", "i", "x">>, BoundaryPrices), Col(<<"K", "M">>, {<<>>}),
       Col(<<"A", "n", "n", "e", "e">>, {<<"2", "0", "1", "9">>}), Col(<<"S", "e", "c", "t", "o", "r">>, {<<"A", "n", "f", "a">>}) >>,
    \* mileage ranges and missing mileages
    << Col(<<"p", "r", "i", "x">>, {<<"5", "0", "0", "0">>, <<"5", "0", "0", "1">>}), Col(<<"k", "m">>, Mileages), Col(<<"a", "n", "n", "e", "e">>, {<<"2", "0", "1", "9">>}) >>,
    \* two columns that match the price role, columns bound to no role
    << Col(<<"C", "o", "l", "o", "r">>, {<<"r", "e", "d">>}), Col(<<"l", "o", "c", "a", "t", "i", "o", "n">>, {<<"R", "a", "b", "a", "t">>}), Col(<<"Y", "e", "a", "r">>, Years),
       Col(<<"M", "i", "l", "e", "a", "g", "e">>, {<<"8", "5", ",", "0", "0", "0", " ", "k", "m">>}), Col(<<"P", "r", "i", "c", "e">>, ListingPrices),
       Col(<<"O", "l", "d", "_", "P", "r", "i", "c", "e">>, {<<"9", "0", "0", "0">>}), Col(<<"F", "u", "e", "l">>, {<<"D", "i", "e", "s", "e", "l">>}), Col(<<"M", "o", "d", "e", "l">>, {<<"L", "o", "g", "a", "n">>}) >>,
    \* no price column
    << Col(<<"B", "r", "a", "n", "d">>, {<<"D", "a", "c", "i", "a">>}), Col(<<"K", "M">>, {<<>>}), Col(<<"Y", "e", "a", "r">>, {<<"2", "0", "1", "9">>}) >>,
    \* no mileage column; the first of two price columns is the second column
    << Col(<<"A", "n", "n", "e", "e">>, {<<"2", "0", "1", "9">>}), Col(<<"P", "r", "i", "x">>, {<<"5", "0", "0", "1">>, <<"a", "b", "c">>}),
       Col(<<"A", "n", "c", "i", "e", "n", "_", "P", "r", "i", "x">>, {<<"9", "0", "0", "0">>}) >>,
    \* no year column
    << Col(<<"p", "r", "i", "c", "e">>, {<<"5", "0", "0", "1">>, <<"3", "0", "0", "0">>}), Col(<<"k", "m">>, {<<>>}) >>,
    \* one column bound to the price and the mileage role
    << Col(<<"p", "r", "i", "x", "_", "k", "m">>, {<<"5", "0", "0", "1">>, <<"a", "b", "c">>}), Col(<<"Y", "e", "a", "r">>, {<<"2", "0", "1", "9">>}) >>,
    \* one column bound to the price and the year role, beside a column named price
    << Col(<<"P", "r", "i", "x", "_", "A", "n", "n", "e", "e">>, {<<"8", "0", " ", "0", "0", "0", " ", "D", "H">>, <<"5", "0", "0", "1">>, <<"a", "b", "c">>}), Col(<<"p", "r", "i", "c", "e">>, {<<"3", "0", "0", "0">>}),
       Col(<<"K", "M">>, {<<>>}) >> }

header(layout) == [j \in 1..Len(layout) |-> layout[j].name]

\* every sequence of fields a line of the layout can hold
RECURSIVE cells_of(_)
cells_of(layout) ==
    IF layout = <<>> THEN {<<>>}
    ELSE {<<c>> \o rest : c \in Head(layout).cells, rest \in cells_of(Tail(layout))}

\* read_csv numbers the rows 0, 1, ... ; the model numbers them 1, 2, ...
tables_of(layout) ==
    UNION { {[i \in 1..n |-> [idx |-> i, cells |-> f[i]]] : f \in [1..n -> cells_of(layout)]}
            : n \in 0..MaxRows }

----------------------------------------------------------------------------
(* run_cleaning, statement by statement. *)

NoCall == val = None /\ call = "idle" /\ ret = None /\ first = None

Init ==
    /\ NoCall
    /\ pc = "start"
    /\ input_exists \in BOOLEAN
    /\ \E layout \in Layouts :
          /\ in_columns = IF input_exists THEN header(layout) ELSE <<>>
          /\ in_rows \in IF input_exists THEN tables_of(layout) ELSE {<<>>}
    /\ columns = <<>> /\ rows = <<>>
    /\ price_col = <<>> /\ mileage_col = <<>> /\ year_col = <<>>
    /\ out_columns = <<>> /\ out_rows = <<>> /\ writes = 0

\* lines 50-51: the input file is missing, the function returns
InputMissing ==
    /\ pc = "start"
    /\ ~input_exists
    /\ pc' = "no_input"
    /\ UNCHANGED <<input_exists, in_columns, in_rows, columns, rows,
                   price_col, mileage_col, year_col, out_columns, out_rows, writes>>
    /\ UNCHANGED cellVars

\* lines 53-57: read_csv and the drop of the useless columns
LoadInput ==
    /\ pc = "start"
    /\ input_exists
    /\ columns' = without(in_columns, in_columns, drop_cols)
    /\ rows' = drop_rows(read_csv(in_rows, Len(in_columns)), in_columns)
    /\ pc' = "loaded"
    /\ UNCHANGED <<input_exists, in_columns, in_rows,
                   price_col, mileage_col, year_col, out_columns, out_rows, writes>>
    /\ UNCHANGED cellVars

\* lines 60-61: df[price_col] raises KeyError when the column is absent
CleanPrice ==
    /\ pc = "loaded"
    /\ price_col' = find_price_col(columns)
    /\ IF has_col(columns, price_col')
       THEN /\ rows' = set_column(rows, col_pos(columns, price_col'),
                               apply_clean_price(column(rows, col_pos(columns, price_col'))))
            /\ pc' = "price_cleaned"
       ELSE /\ rows' = rows
            /\ pc' = "lookup_failed"
    /\ UNCHANGED <<input_exists, in_columns, in_rows, columns,
                   mileage_col, year_col, out_columns, out_rows, writes>>
    /\ UNCHANGED cellVars

\* as FilterPrice, saving the filtered table at once
FilterPriceAndSave ==
    /\ pc = "price_cleaned"
    /\ rows' = price_range(dropna(rows, col_pos(columns, price_col)),
                           col_pos(columns, price_col))
    /\ pc' = "price_filtered"
    /\ out_columns' = columns
    /\ out_rows' = rows'
    /\ writes' = writes + 1
    /\ UNCHANGED <<input_exists, in_columns, in_rows, columns,
                   price_col, mileage_col, year_col>>
    /\ UNCHANGED cellVars

\* lines 64-68
FilterPrice ==
    /\ pc = "price_cleaned"
    /\ rows' = price_range(dropna(rows, col_pos(columns, price_col)),
                           col_pos(columns, price_col))
    /\ pc' = "price_filtered"
    /\ UNCHANGED <<input_exists, in_columns, in_rows, columns,
                   price_col, mileage_col, year_col, out_columns, out_rows, writes>>
    /\ UNCHANGED cellVars

\* lines 71-72
CleanMileage ==
    /\ pc = "price_filtered"
    /\ mileage_col' = find_mileage_col(columns)
    /\ IF has_col(columns, mileage_col')
       THEN /\ rows' = set_column(rows, col_pos(columns, mileage_col'),
                               apply_clean_mileage_range(column(rows, col_pos(columns, mileage_col'))))
            /\ pc' = "mileage_cleaned"
       ELSE /\ rows' = rows
            /\ pc' = "lookup_failed"
    /\ UNCHANGED <<input_exists, in_columns, in_rows, columns,
                   price_col, year_col, out_columns, out_rows, writes>>
    /\ UNCHANGED cellVars

\* lines 75-77
CleanYear ==
    /\ pc = "mileage_cleaned"
    /\ year_col' = find_year_col(columns)
    /\ IF has_col(columns, year_col')
       THEN /\ rows' = dropna(set_column(rows, col_pos(columns, year_col'),
                                      apply_clean_year(column(rows, col_pos(columns, year_col')))),
                              col_pos(columns, year_col'))
            /\ pc' = "year_cleaned"
       ELSE /\ rows' = rows
            /\ pc' = "lookup_failed"
    /\ UNCHANGED <<input_exists, in_columns, in_rows, columns,
                   price_col, mileage_col, out_columns, out_rows, writes>>
    /\ UNCHANGED cellVars

\* lines 80-87: rename, to_csv, and the two prints; df['price'] of the last
\* print raises KeyError when no column is named price after the rename
RenameAndSave ==
    /\ pc = "year_cleaned"
    /\ columns' = rename(columns)
    /\ out_columns' = columns'
    /\ out_rows' = rows
    /\ writes' = writes + 1
    /\ pc' = IF has_col(columns', <<"p", "r", "i", "c", "e">>) THEN "done" ELSE "max_failed"
    /\ UNCHANGED <<input_exists, in_columns, in_rows, rows, price_col, mileage_col, year_col>>
    /\ UNCHANGED cellVars

Next ==
    \/ InputMissing
    \/ LoadInput
    \/ CleanPrice
    \/ FilterPrice
    \/ CleanMileage
    \/ CleanYear
    \/ RenameAndSave

Spec == Init /\ [][Next]_vars

----------------------------------------------------------------------------
(* What the claims are stated with. *)

\* the field of input line i in the input column named c, and the value
\* read_csv loads from it
raw(i, c) == in_rows[i].cells[col_pos(in_columns, c)]
loaded(i, c) == read_csv_column(column(in_rows, col_pos(in_columns, c)))[i]

\* input row i is among the written rows
written(i) == \E k \in 1..Len(out_rows) : out_rows[k].idx = i

\* the cell of written row k in the column that was named c before the rename
out_cell(k, c) == out_rows[k].cells[col_pos(without(in_columns, in_columns, drop_cols), c)]

bound(c) == has_col(in_columns, c)

\* the three roles are bound to three different columns of the table
distinct_bindings ==
    /\ bound(price_col) /\ bound(mileage_col) /\ bound(year_col)
    /\ price_col # mileage_col /\ price_col # year_col /\ mileage_col # year_col

\* the number a text's digits spell, read from the left; 0 when it has none
RECURSIVE digits_value(_, _)
digits_value(t, acc) ==
    IF t = <<>> THEN acc
    ELSE digits_value(Tail(t), IF IsDigit(Head(t)) THEN acc * 10 + DigitVal(Head(t)) ELSE acc)

\* the text before the first '-', the whole text when it has none
lower_bound_text(t) ==
    LET dashes == {i \in 1..Len(t) : t[i] = "-"}
    IN  IF dashes = {} THEN t
        ELSE SubSeq(t, 1, (CHOOSE i \in dashes : \A j \in dashes : i <= j) - 1)

\* the price parser as the specification words it: a two-character group after
\* the final comma is cut off, everything before that comma is kept
price_as_specified(t) ==
    LET s0 == strip(lower(t))
        commas == {i \in 1..Len(s0) : s0[i] = ","}
        final == CHOOSE i \in commas : \A j \in commas : j <= i
        s  == IF endswith(s0, <<".", "0">>) THEN SubSeq(s0, 1, Len(s0) - 2)
              ELSE IF endswith(s0, <<".", "0", "0">>) THEN SubSeq(s0, 1, Len(s0) - 3)
              ELSE IF commas # {} /\ Len(s0) - final = 2 THEN SubSeq(s0, 1, final - 1)
              ELSE s0
    IN  IF \E i \in 1..Len(s) : IsDigit(s[i]) THEN Num(digits_value(s, 0)) ELSE None

\* the year parser as the specification words it: the leftmost run of digits
\* that is exactly 4 long
year_as_specified(t) ==
    LET s == strip(lower(t))
        digit_at(i) == i >= 1 /\ i <= Len(s) /\ IsDigit(s[i])
        runs == {i \in 1..(Len(s) - 3) :
                    /\ \A j \in i..(i + 3) : digit_at(j)
                    /\ ~digit_at(i - 1) /\ ~digit_at(i + 4)}
        m == CHOOSE i \in runs : \A j \in runs : i <= j
    IN  IF runs = {} THEN None ELSE Num(digits_value(SubSeq(s, m, m + 3), 0))

\* the price and the year the filter sees for input row i.  A column bound to
\* two roles is parsed twice: the later parser reads the earlier one's result.
norm_price(i) == clean_price(loaded(i, price_col))
mileage_source(i) ==
    IF mileage_col = price_col THEN norm_price(i) ELSE loaded(i, mileage_col)
year_source(i) ==
    IF year_col = mileage_col THEN clean_mileage_range(mileage_source(i))
    ELSE IF year_col = price_col THEN norm_price(i)
    ELSE loaded(i, year_col)
survives(i) ==
    /\ norm_price(i).k = "int" /\ norm_price(i).n > 5000 /\ norm_price(i).n < 3000000
    /\ clean_year(year_source(i)).k = "int"

\* the numbers i..n that are in the set kept, in order
RECURSIVE numbers_kept(_, _, _)
numbers_kept(i, n, kept) ==
    IF i > n THEN <<>>
    ELSE (IF i \in kept THEN <<i>> ELSE <<>>) \o numbers_kept(i + 1, n, kept)

----------------------------------------------------------------------------
(* The claims. *)

C2_PriceIsAsSpecified ==
    call = "clean_price" => ret = price_as_specified(val.s)

\* C3: clean_year returns the value of the leftmost run of exactly 4 digits,
\* and null when the text has no run of exactly 4 digits.
C3_YearIsFirstRunOfExactlyFour ==
    call = "clean_year" => ret = year_as_specified(val.s)

\* C4: clean_mileage_range never returns null: it returns the non-negative
\* integer spelled by the digits before the first '-' (of the whole text when
\* it has no '-'), and 0 when there is no digit there.
C4_MileageIsLowerBound ==
    call = "clean_mileage_range" =>
        /\ ret.k = "int"
        /\ ret.n >= 0
        /\ ret.n = digits_value(lower_bound_text(val.s), 0)

\* a range with digits on both sides of the '-'
C4_Witness ==
    /\ call = "clean_mileage_range"
    /\ val = Txt(<<"1", "0", "0", " ", "0", "0", "0", " ", "-", " ", "1", "1", "0", " ", "0", "0", "0">>)
    /\ ret = Num(100000)

\* C5: each role is bound to the first column, in table order, whose
\* lower-cased name contains one of the role's synonyms, and to the literal
\* fallback name when no column matches, whether or not that column exists.
first_match_or(c, synonyms, default) ==
    LET matches(j) == \E syn \in synonyms : contains(lower(in_columns[j]), syn)
    IN  IF \E j \in 1..Len(in_columns) : matches(j)
        THEN \E j \in 1..Len(in_columns) :
                 /\ matches(j) /\ in_columns[j] = c
                 /\ \A h \in 1..(j - 1) : ~matches(h)
        ELSE c = default

C5_FirstMatchOrFallback ==
    /\ pc \notin {"start", "no_input", "loaded"} =>
          first_match_or(price_col, {<<"p", "r", "i", "c", "e">>, <<"p", "r", "i", "x">>}, <<"P", "r", "i", "c", "e">>)
    /\ pc \in {"mileage_cleaned", "year_cleaned", "done", "max_failed"}
       \/ (pc = "lookup_failed" /\ bound(price_col)) =>
          first_match_or(mileage_col, {<<"m", "i", "l", "e", "a", "g", "e">>, <<"k", "m">>}, <<"M", "i", "l", "e", "a", "g", "e">>)
    /\ pc \in {"year_cleaned", "done", "max_failed"}
       \/ (pc = "lookup_failed" /\ bound(price_col) /\ bound(mileage_col)) =>
          first_match_or(year_col, {<<"y", "e", "a", "r">>, <<"a", "n", "n", "e", "e">>}, <<"Y", "e", "a", "r">>)

\* the price role bound to the second of three columns, the first of two that
\* match, and the mileage role bound to the absent fallback name
C5_Witness ==
    /\ pc = "lookup_failed"
    /\ in_columns = <<<<"A", "n", "n", "e", "e">>, <<"P", "r", "i", "x">>, <<"A", "n", "c", "i", "e", "n", "_", "P", "r", "i", "x">>>>
    /\ price_col = <<"P", "r", "i", "x">>
    /\ mileage_col = <<"M", "i", "l", "e", "a", "g", "e">>

\* C6, as claimed: the written columns are only canonical fields, price,
\* mileage_km and year among them; no column bound to no role is written.
canonical == {<<"p", "r", "i", "c", "e">>, <<"m", "i", "l", "e", "a", "g", "e", "_", "k", "m">>, <<"y", "e", "a", "r">>, <<"b", "r", "a", "n", "d">>, <<"m", "o", "d", "e", "l">>, <<"f", "u", "e", "l", "_", "t", "y", "p", "e">>}

C7_SurvivorsInOrder ==
    pc = "done" =>
        /\ Len(out_rows) = Cardinality({i \in 1..Len(in_rows) : survives(i)})
        /\ [k \in 1..Len(out_rows) |-> out_rows[k].idx]
               = numbers_kept(1, Len(in_rows), {i \in 1..Len(in_rows) : survives(i)})

\* three rows, the first and the third equal and kept, the second dropped
C7_Witness ==
    /\ pc = "done"
    /\ Len(in_rows) = 3
    /\ raw(1, price_col) = Txt(<<"8", "0", " ", "0", "0", "0", " ", "D", "H">>) /\ raw(2, price_col) = Txt(<<"3", "0", "0", "0">>)
    /\ in_rows[1].cells = in_rows[3].cells
    /\ [k \in 1..Len(out_rows) |-> out_rows[k].idx] = <<1, 3>>
    /\ out_cell(1, price_col).n = 80000 /\ out_cell(2, price_col).n = 80000

\* C8: the output is written at most once, and only by the last step, with
\* every cell of the three bound columns parsed and every kept row past the
\* filter; a run that ends because the input is missing or a bound column is
\* absent has written nothing.
C8_WrittenOnceAtTheEnd ==
    /\ writes \in {0, 1}
    /\ writes = 1 <=> pc \in {"done", "max_failed"}
    /\ writes = 0 => out_columns = <<>> /\ out_rows = <<>>
    /\ writes = 1 =>
          \A k \in 1..Len(out_rows) :
              /\ survives(out_rows[k].idx)
              /\ \A c \in {price_col, mileage_col, year_col} : IsNumber(out_cell(k, c))
    /\ pc \in {"no_input", "lookup_failed"} => writes = 0

\* a run that failed on the absent year column after its rows passed the price
\* filter and the mileage parser
C8_Witness ==
    /\ pc = "lookup_failed"
    /\ year_col = <<"Y", "e", "a", "r">> /\ ~bound(year_col)
    /\ Len(rows) > 0
    /\ writes = 0 /\ out_rows = <<>>

\* C9: clean_price returns its own integer results unchanged.
C9_PriceIdempotent ==
    call = "clean_price_again" => ret = first

\* 80000, parsed from '80 000 DH', parsed again
C9_Witness ==
    /\ call = "clean_price_again"
    /\ first = Num(80000)
    /\ ret = Num(80000)

\* C10, as claimed: every written row has a year between 1000 and 9999.
C10_YearHasFourDigits ==
    writes = 1 =>
        \A k \in 1..Len(out_rows) :
            out_cell(k, year_col).n >= 1000 /\ out_cell(k, year_col).n <= 9999

\* C10, amended: every written row has a non-null year between 0 and 9999,
\* the value of four consecutive digits.
C10_YearWithinFourDigits ==
    writes = 1 =>
        \A k \in 1..Len(out_rows) :
            /\ IsNumber(out_cell(k, year_col))
            /\ out_cell(k, year_col).n >= 0 /\ out_cell(k, year_col).n <= 9999

\* a written row whose year cell '0123' became the year 123
C10_Witness ==
    /\ writes = 1
    /\ \E k \in 1..Len(out_rows) :
          /\ raw(out_rows[k].idx, year_col) = Txt(<<"0", "1", "2", "3">>)
          /\ out_cell(k, year_col).n = 123

====
